---- MODULE Spec2Model ----
(***************************************************************************)
(* Two programs of the PyGame course repository.                           *)
(*                                                                         *)
(*   SpecRobot : the Crazy-Robot main loop (Lesson-01, cot_moc_4.py).      *)
(*   SpecWorld : Player (Lesson-09) and FriendlyNpc (Lesson-07) updated    *)
(*               once per tick by a World that delivers the event queue.   *)
(*   SpecEvents: Player._handle_events, one event of a batch at a time.    *)
(*   SpecNpc   : the FriendlyNpcs alone, in a World that numbers its       *)
(*               entities from 0 or from 1; SpecNpcFair keeps it running.  *)
(*   SpecScreen: Player._update_screen_offset after the move of a tick.    *)
(*                                                                         *)
(* Positions are scaled to a small grid; sprites are squares.              *)
(***************************************************************************)
EXTENDS Integers, Sequences, FiniteSets, TLC

\* ------------------------------------------------------------- bounds ----
\* Largest entity identifier the World hands out.
MaxId == 6
\* Most events the host and the other entities add to the queue per tick.
MaxInput == 1
\* The longest event batch handed to one run of Player._handle_events.
MaxBatch == 3
\* The fastest horizontal move of the player, in pixels per tick.
MaxDx == 3
\* Largest coordinate of the scaled screen.
GridMax == 5
\* Side of every sprite image, in grid cells.
SpriteSize == 2

VARIABLES
    \* ---- Crazy-Robot (cot_moc_4.py)
    player,          \* [x, y]
    list_robot,      \* sequence of [x, y, dx, dy]
    list_item,       \* sequence of [x, y, hidden]
    to_mo,           \* [x, y], the goal NPC
    game_state,      \* [score, state]
    running,         \* the loop variable of line 37
    quit_event,      \* a pygame.QUIT event waits in the host's queue
    pc,              \* position of the main loop inside one iteration
    tick_state,      \* game_state.state at the top of the current tick
    tick_score,      \* game_state.score at the top of the current tick
    n_update_state,  \* calls of game_state.update_state in the current tick
    n_render,        \* render phases run in the current tick
    \* ---- World, Player, FriendlyNpc (Lesson-07 / Lesson-09)
    entities,        \* World: identifier -> entity record (kind "NONE": none)
    pl,              \* the Player's fields
    npc,             \* FriendlyNpc id -> [is_near_player, question_mark_id]
    events,          \* the events delivered to every update of this tick
    queue,           \* events posted and not yet delivered
    posted_last_tick,\* what the queue held when it was drained for this tick
    handled,         \* the events of this tick Player._handle_events has handled
    first_id,        \* the smallest identifier World.add_entity hands out
    colliding,       \* ids of the entities the player's rect overlaps
    wpc,             \* position of the World's tick
    npc_turn,        \* the FriendlyNpc whose update is next
    move_calls,      \* move_left / move_right / jump calls of the last update
    crashed,         \* an exception left an update and ended the game loop
    \* ---- Player._update_screen_offset (player.py)
    rect_x,          \* self.rect.x, the player's left edge
    rect_x0,         \* rect.x when the running or last Player.update started
    self_dx,         \* self.dx
    at_left_most,    \* what World.at_left_most() answers in this update
    offset_calls,    \* arguments of World.update_screen_offset in this update
    spc              \* position inside Player.update

robotVars == <<player, list_robot, list_item, to_mo, game_state, running,
               quit_event, pc, tick_state, tick_score, n_update_state,
               n_render>>

worldVars == <<entities, pl, npc, events, queue, posted_last_tick, handled,
               first_id, colliding, wpc, npc_turn, move_calls, crashed>>

screenVars == <<rect_x, rect_x0, self_dx, at_left_most, offset_calls, spc>>

vars == <<robotVars, worldVars, screenVars>>

Image == [w |-> SpriteSize, h |-> SpriteSize]

\* utils.overlap: axis-aligned rectangles intersect with non-zero measure.
overlap(ax, ay, aimage, bx, by, bimage) ==
    /\ ax < bx + bimage.w
    /\ bx < ax + aimage.w
    /\ ay < by + bimage.h
    /\ by < ay + aimage.h

\* GameState.update_state / update_score: plain setters.
update_state(gs, new_state) == [gs EXCEPT !.state = new_state]
update_score(gs, new_score) == [gs EXCEPT !.score = new_score]

\* GameItem.set_hidden
set_hidden(item) == [item EXCEPT !.hidden = TRUE]

Clamp(v) == IF v < 0 THEN 0 ELSE IF v > GridMax THEN GridMax ELSE v

\* Player.update: the keyboard moves the player by at most one cell per axis,
\* kept on the screen.
player_update(p, kx, ky) == [x |-> Clamp(p.x + kx), y |-> Clamp(p.y + ky)]

\* Robot.update: advance by the heading, turning round at the screen's edges.
Bounce(v, d) == IF v + d < 0 \/ v + d > GridMax THEN -d ELSE d
robot_update(r) ==
    LET dx == Bounce(r.x, r.dx)
        dy == Bounce(r.y, r.dy)
    IN  [x |-> r.x + dx, y |-> r.y + dy, dx |-> dx, dy |-> dy]

\* ---------------------------------------------------------------- Init ----
InitRobot ==
    /\ player = [x |-> 2, y |-> 3]
    /\ list_robot = << [x |-> 5, y |-> 5, dx |-> 1, dy |-> 1],
                       [x |-> 1, y |-> 0, dx |-> -1, dy |-> 0],
                       [x |-> 5, y |-> 1, dx |-> 0, dy |-> 1] >>
    /\ list_item = << [x |-> 0, y |-> 4, hidden |-> FALSE],
                      [x |-> 1, y |-> 5, hidden |-> FALSE],
                      [x |-> 4, y |-> 3, hidden |-> FALSE] >>
    /\ to_mo = [x |-> 5, y |-> 0]
    /\ game_state = [score |-> 0, state |-> "RUNNING"]
    /\ running = TRUE
    /\ quit_event = FALSE
    /\ pc = "top"
    /\ tick_state = "NONE"
    /\ tick_score = 0
    /\ n_update_state = 0
    /\ n_render = 0

\* -------------------------------------------------------- Crazy-Robot ----
\* The host environment: the user closes the window.
PostQuit ==
    /\ UNCHANGED <<worldVars, screenVars>>
    /\ running
    /\ ~quit_event
    /\ quit_event' = TRUE
    /\ UNCHANGED <<player, list_robot, list_item, to_mo, game_state, running,
                   pc, tick_state, tick_score, n_update_state, n_render>>

\* Variant of TickBody without the RUNNING guard of line 45.
TickBody_NoGuard(state) == "player_update"

\* Variant of TickBody whose guard is "state != LOST".
TickBody_LostOnly(state) == IF state = "LOST" THEN "render" ELSE "player_update"

\* Line 45: where the iteration goes after the quit check.
TickBody(state) == IF state = "RUNNING" THEN "player_update" ELSE "render"

\* Variant of LoopTop without the break of line 42: the flag is cleared but
\* the iteration goes on.
LoopTop_NoBreak ==
    /\ UNCHANGED <<worldVars, screenVars>>
    /\ pc = "top"
    /\ running
    /\ running' = ~quit_event
    /\ pc' = TickBody(game_state.state)
    /\ tick_state' = game_state.state
    /\ tick_score' = game_state.score
    /\ n_update_state' = 0
    /\ n_render' = 0
    /\ UNCHANGED <<player, list_robot, list_item, to_mo, game_state, quit_event>>

\* Lines 38-45: loop test, quit check, RUNNING guard.
LoopTop ==
    /\ UNCHANGED <<worldVars, screenVars>>
    /\ pc = "top"
    /\ running
    /\ IF quit_event
       THEN /\ running' = FALSE
            /\ pc' = "exit"
            /\ UNCHANGED <<tick_state, tick_score, n_update_state, n_render>>
       ELSE /\ pc' = TickBody(game_state.state)
            /\ tick_state' = game_state.state
            /\ tick_score' = game_state.score
            /\ n_update_state' = 0
            /\ n_render' = 0
            /\ UNCHANGED running
    /\ UNCHANGED <<player, list_robot, list_item, to_mo, game_state, quit_event>>

\* Line 46.
CrazyPlayerUpdate ==
    /\ UNCHANGED <<worldVars, screenVars>>
    /\ pc = "player_update"
    /\ \E kx \in {-1, 0, 1}, ky \in {-1, 0, 1} :
           player' = player_update(player, kx, ky)
    /\ pc' = "robots_update"
    /\ UNCHANGED <<list_robot, list_item, to_mo, game_state, running,
                   quit_event, tick_state, tick_score, n_update_state,
                   n_render>>

\* Lines 48-49.
RobotsUpdate ==
    /\ UNCHANGED <<worldVars, screenVars>>
    /\ pc = "robots_update"
    /\ list_robot' = [i \in 1..Len(list_robot) |-> robot_update(list_robot[i])]
    /\ pc' = "items"
    /\ UNCHANGED <<player, list_item, to_mo, game_state, running,
                   quit_event, tick_state, tick_score, n_update_state,
                   n_render>>

\* Variant of PickItem that forgets item.set_hidden() of line 54.
PickItem_NoHide(item, gs) ==
    IF ~item.hidden /\ overlap(player.x, player.y, Image, item.x, item.y, Image)
    THEN <<item, update_score(gs, gs.score + 1)>>
    ELSE <<item, gs>>

\* Lines 52-57: one pass of the item loop body.
PickItem(item, gs) ==
    IF ~item.hidden /\ overlap(player.x, player.y, Image, item.x, item.y, Image)
    THEN <<set_hidden(item), update_score(gs, gs.score + 1)>>
    ELSE <<item, gs>>

\* Lines 51-57: the item loop from index i on; yields <<items, game_state>>.
RECURSIVE ItemLoop(_, _, _)
ItemLoop(i, items, gs) ==
    IF i > Len(items) THEN <<items, gs>>
    ELSE LET r == PickItem(items[i], gs)
         IN  ItemLoop(i + 1, [items EXCEPT ![i] = r[1]], r[2])

\* Variant of ItemPhase in which a player on a robot picks nothing up, as if
\* the hazard checks of lines 59-62 came before the item loop.
ItemPhase_HazardFirst ==
    /\ UNCHANGED <<worldVars, screenVars>>
    /\ pc = "items"
    /\ LET hit == \E j \in 1..Len(list_robot) :
                      overlap(player.x, player.y, Image,
                              list_robot[j].x, list_robot[j].y, Image)
           r == IF hit THEN <<list_item, game_state>>
                ELSE ItemLoop(1, list_item, game_state)
       IN  /\ list_item' = r[1]
           /\ game_state' = r[2]
    /\ pc' = "hazards"
    /\ UNCHANGED <<player, list_robot, to_mo, running, quit_event,
                   tick_state, tick_score, n_update_state, n_render>>

\* Lines 51-57.
ItemPhase ==
    /\ UNCHANGED <<worldVars, screenVars>>
    /\ pc = "items"
    /\ LET r == ItemLoop(1, list_item, game_state)
       IN  /\ list_item' = r[1]
           /\ game_state' = r[2]
    /\ pc' = "hazards"
    /\ UNCHANGED <<player, list_robot, to_mo, running, quit_event,
                   tick_state, tick_score, n_update_state, n_render>>

\* Lines 59-62: the robot loop from index i on; yields <<game_state, calls>>.
RECURSIVE HazardLoop(_, _, _)
HazardLoop(i, gs, n) ==
    IF i > Len(list_robot) THEN <<gs, n>>
    ELSE IF overlap(player.x, player.y, Image,
                    list_robot[i].x, list_robot[i].y, Image)
         THEN HazardLoop(i + 1, update_state(gs, "LOST"), n + 1)
         ELSE HazardLoop(i + 1, gs, n)

HazardPhase ==
    /\ UNCHANGED <<worldVars, screenVars>>
    /\ pc = "hazards"
    /\ LET r == HazardLoop(1, game_state, n_update_state)
       IN  /\ game_state' = r[1]
           /\ n_update_state' = r[2]
    /\ pc' = "goal"
    /\ UNCHANGED <<player, list_robot, list_item, to_mo, running, quit_event,
                   tick_state, tick_score, n_render>>

\* Lines 64-66.
GoalPhase ==
    /\ UNCHANGED <<worldVars, screenVars>>
    /\ pc = "goal"
    /\ IF overlap(player.x, player.y, Image, to_mo.x, to_mo.y, Image)
       THEN /\ game_state' = update_state(game_state, "WON")
            /\ n_update_state' = n_update_state + 1
       ELSE UNCHANGED <<game_state, n_update_state>>
    /\ pc' = "render"
    /\ UNCHANGED <<player, list_robot, list_item, to_mo, running, quit_event,
                   tick_state, tick_score, n_render>>

\* Lines 70-86: drawing reads the state and changes none of it.
Render ==
    /\ UNCHANGED <<worldVars, screenVars>>
    /\ pc = "render"
    /\ n_render' = n_render + 1
    /\ pc' = "top"
    /\ UNCHANGED <<player, list_robot, list_item, to_mo, game_state, running,
                   quit_event, tick_state, tick_score, n_update_state>>

NextRobot ==
    \/ PostQuit
    \/ LoopTop
    \/ CrazyPlayerUpdate
    \/ RobotsUpdate
    \/ ItemPhase
    \/ HazardPhase
    \/ GoalPhase
    \/ Render

\* ------------------------------------- Player._update_screen_offset ----
\* GameConfig.WIDTH and GameConfig.PLAYER_SOFT_EDGE_WIDTH, scaled down, and
\* the width of the player's rect.
WIDTH == 12
PLAYER_SOFT_EDGE_WIDTH == 3
PlayerWidth == 2

\* rect.left and rect.right of a rect whose x is x.
Left(x) == x
Right(x) == x + PlayerWidth

\* The player stands still at one of the positions xs, between two updates.
InitScreen(xs) ==
    /\ rect_x \in xs
    /\ rect_x0 = rect_x
    /\ self_dx = 0
    /\ at_left_most = TRUE
    /\ offset_calls = <<>>
    /\ spc = "idle"

\* Variant of update_screen_offset without the undo of line 120.
update_screen_offset_NoUndo(x, d, leftmost) ==
    LET at_right_edge == Right(x) >= WIDTH
        at_right_soft_edge == Right(x) > WIDTH - PLAYER_SOFT_EDGE_WIDTH
        at_left_edge == Left(x) <= 0
        at_left_soft_edge == Left(x) < PLAYER_SOFT_EDGE_WIDTH
    IN  IF \/ at_left_edge
           \/ at_right_edge
           \/ (at_left_soft_edge /\ ~leftmost)
           \/ at_right_soft_edge
        THEN <<x, -d>>
        ELSE <<x, 0>>

\* Lines 104-123 of Player._update_screen_offset, on rect.x, dx and the
\* answer of world.at_left_most(); yields <<rect.x, delta_screen_offset>>.
update_screen_offset(x, d, leftmost) ==
    LET at_right_edge == Right(x) >= WIDTH
        at_right_soft_edge == Right(x) > WIDTH - PLAYER_SOFT_EDGE_WIDTH
        at_left_edge == Left(x) <= 0
        at_left_soft_edge == Left(x) < PLAYER_SOFT_EDGE_WIDTH
    IN  IF \/ at_left_edge
           \/ at_right_edge
           \/ (at_left_soft_edge /\ ~leftmost)
           \/ at_right_soft_edge
        THEN <<x - d, -d>>
        ELSE <<x, 0>>

\* Line 35, super().update(): the entity moves by its velocity; the keys
\* held and the World's scroll position are what they are in this tick.
MoveEntity ==
    /\ UNCHANGED <<robotVars, worldVars>>
    /\ spc = "idle"
    /\ \E d \in -MaxDx..MaxDx :
           /\ self_dx' = d
           /\ rect_x' = rect_x + d
    /\ rect_x0' = rect_x
    /\ at_left_most' \in BOOLEAN
    /\ offset_calls' = <<>>
    /\ spc' = "moved"

\* Line 41: self._update_screen_offset(), with line 123.
UpdateScreenOffset ==
    /\ UNCHANGED <<robotVars, worldVars>>
    /\ spc = "moved"
    /\ LET r == update_screen_offset(rect_x, self_dx, at_left_most)
       IN  /\ rect_x' = r[1]
           /\ offset_calls' = Append(offset_calls, r[2])
    /\ spc' = "idle"
    /\ UNCHANGED <<rect_x0, self_dx, at_left_most>>

NextScreen ==
    \/ MoveEntity
    \/ UpdateScreenOffset

\* ------------------------------------------ World, Player, FriendlyNpc ----
\* Python's None, for an Optional[int] field and for a missing listener id.
None == -1

Ids == 0..MaxId

\* The level as loaded: one Player, two FriendlyNpc, one collectable tile.
PlayerId == 1
NpcIds == {2, 3}
TileId == 4

\* NpcConfig: which FriendlyNpc has a dialogue (FriendlyNpc.has_dialogue).
has_dialogue(n) == n = 2

NoEntity == [kind |-> "NONE", at |-> None, inventory |-> <<>>]
NewEntity(kind) == [kind |-> kind, at |-> None, inventory |-> <<>>]

\* Python truth value of an Optional[int]: None and 0 are false.
Truthy(id) == id # None /\ id # 0

\* World.get_entity: the live entity, or NoEntity for "not found".
get_entity(ents, id) == IF id \in Ids THEN ents[id] ELSE NoEntity

Found(e) == e.kind # "NONE"

\* World.add_entity: registers a new entity under the fresh identifier id.
add_entity(ents, id, kind) == [ents EXCEPT ![id] = NewEntity(kind)]

\* World.remove_entity: deregisters; a no-op for an identifier not registered.
remove_entity(ents, id) ==
    IF id \in Ids THEN [ents EXCEPT ![id] = NoEntity] ELSE ents

FreeIds(ents) == {id \in Ids : id >= first_id /\ ~Found(ents[id])}

\* World.get_friendly_npcs / get_collectable_tiles: the identifiers of the
\* registered entities of one kind, in the World's iteration order.
RECURSIVE EntitiesOfKind(_, _, _)
EntitiesOfKind(ents, kind, id) ==
    IF id > MaxId THEN <<>>
    ELSE IF ents[id].kind = kind
         THEN <<id>> \o EntitiesOfKind(ents, kind, id + 1)
         ELSE EntitiesOfKind(ents, kind, id + 1)

get_friendly_npcs(ents) == EntitiesOfKind(ents, "FRIENDLY_NPC", 0)
get_collectable_tiles(ents) == EntitiesOfKind(ents, "COLLECTABLE", 0)

\* GameEvent and its accessors.
GameEvent(type, key, listener_id) ==
    [type |-> type, key |-> key, listener_id |-> listener_id]
get_listener_id(event) == event.listener_id
is_type(event, type) == event.type = type
is_key_down(event, key) == event.type = "KEYDOWN" /\ event.key = key
is_key_up(event, key) == event.type = "KEYUP" /\ event.key = key

\* What the host's keyboard and the entities outside this model put on the
\* queue: key events, the end of a dialogue, a PLAYER_NEAR_NPC broadcast.
HostEvents ==
    {GameEvent(t, k, None) : t \in {"KEYDOWN", "KEYUP"}, k \in {"LEFT", "RIGHT"}}
    \cup {GameEvent("KEYDOWN", "UP", None), GameEvent("KEYUP", "E", None),
          GameEvent("NPC_DIALOGUE_END", "NONE", None),
          GameEvent("PLAYER_NEAR_NPC", "NONE", None)}

HostInputs == UNION {[1..n -> HostEvents] : n \in 0..MaxInput}

InitWorldFrom(first) ==
    /\ first_id = first
    /\ entities = [id \in Ids |->
                     IF id = PlayerId THEN NewEntity("PLAYER")
                     ELSE IF id \in NpcIds THEN NewEntity("FRIENDLY_NPC")
                     ELSE IF id = TileId THEN NewEntity("COLLECTABLE")
                     ELSE NoEntity]
    /\ pl = [npc_near_by |-> None, talking |-> FALSE, inventory |-> <<>>,
             inventory_entity_id |-> None]
    /\ npc = [n \in NpcIds |-> [is_near_player |-> FALSE, question_mark_id |-> None]]
    /\ events = <<>>
    /\ queue = <<>>
    /\ posted_last_tick = <<>>
    /\ handled = <<>>
    /\ colliding = {}
    /\ wpc = "begin"
    /\ npc_turn = None
    /\ move_calls = <<>>
    /\ crashed = FALSE

\* The World of the checkpoint numbers its entities from 1.
InitWorld == InitWorldFrom(1)

\* The game loop's top: the queue is drained into this tick's events, with
\* what the host and the other entities posted since the last tick; physics
\* has moved the entities, so the player overlaps a new set of them.
TickBegin ==
    /\ UNCHANGED <<robotVars, screenVars>>
    /\ wpc = "begin"
    /\ \E input \in HostInputs : events' = queue \o input
    /\ queue' = <<>>
    /\ posted_last_tick' = queue
    /\ \E c \in SUBSET (NpcIds \cup {TileId}) : colliding' = c
    /\ wpc' = "player"
    /\ UNCHANGED <<entities, pl, npc, handled, first_id, npc_turn, move_calls,
                   crashed>>

\* Another entity takes a dependent entity (a question mark, the inventory
\* display) out of the World between two ticks.
RemoveByOther ==
    /\ UNCHANGED <<robotVars, screenVars>>
    /\ wpc = "begin"
    /\ \E id \in Ids :
           /\ entities[id].kind \in {"QUESTION_MARK", "PLAYER_INVENTORY"}
           /\ entities' = remove_entity(entities, id)
    /\ UNCHANGED <<pl, npc, events, queue, posted_last_tick, handled, first_id,
                   colliding, wpc, npc_turn, move_calls, crashed>>

\* ---- Player (player.py)
\* Lines 84-91: yields <<npc_near_by, posted events>>.
RECURSIVE NearLoop(_, _)
NearLoop(npcs, i) ==
    IF i > Len(npcs) THEN <<None, <<>>>>
    ELSE IF npcs[i] \in colliding
         THEN <<npcs[i], <<GameEvent("PLAYER_NEAR_NPC", "NONE", npcs[i])>>>>
         ELSE NearLoop(npcs, i + 1)

\* Variant of update_npc_near_by without the reset of line 85.
update_npc_near_by_NoReset(ents) ==
    LET r == NearLoop(get_friendly_npcs(ents), 1)
    IN  IF r[1] = None THEN <<pl.npc_near_by, <<>>>> ELSE r

update_npc_near_by(ents) == NearLoop(get_friendly_npcs(ents), 1)

\* Lines 93-102: yields <<entities, inventory>>.
RECURSIVE PickLoop(_, _, _, _)
PickLoop(tiles, i, ents, inventory) ==
    IF i > Len(tiles) THEN <<ents, inventory>>
    ELSE IF tiles[i] \in colliding
         THEN PickLoop(tiles, i + 1, remove_entity(ents, tiles[i]),
                       Append(inventory, tiles[i]))
         ELSE PickLoop(tiles, i + 1, ents, inventory)

\* Variant of pick_item_near_by without world.remove_entity of line 100.
pick_item_near_by_NoRemove(ents, inventory) ==
    <<ents, PickLoop(get_collectable_tiles(ents), 1, ents, inventory)[2]>>

pick_item_near_by(ents, inventory) ==
    PickLoop(get_collectable_tiles(ents), 1, ents, inventory)

\* Variant of handle_activation without the early return of lines 77-78.
handle_activation_NoCheck(p, posted) ==
    <<[p EXCEPT !.talking = TRUE],
      Append(posted, GameEvent("PLAYER_ACTIVATE_NPC", "NONE", p.npc_near_by))>>

\* Lines 76-82, on the record p of the player's fields and the posted events.
handle_activation(p, posted) ==
    IF p.npc_near_by = None \/ ~has_dialogue(p.npc_near_by)
    THEN <<p, posted>>
    ELSE <<[p EXCEPT !.talking = TRUE],
           Append(posted, GameEvent("PLAYER_ACTIVATE_NPC", "NONE", p.npc_near_by))>>

\* Variant of HandleKeyDown without the guard of line 59.
HandleKeyDown_NoGuard(p, calls, event) ==
    IF is_key_down(event, "LEFT") THEN Append(calls, <<"move_left", TRUE>>)
    ELSE IF is_key_down(event, "RIGHT") THEN Append(calls, <<"move_right", TRUE>>)
    ELSE IF is_key_down(event, "UP") THEN Append(calls, <<"jump", TRUE>>)
    ELSE calls

\* Lines 59-65: the key-down part of one pass of the event loop; yields the
\* calls made so far.
HandleKeyDown(p, calls, event) ==
    IF ~p.talking
    THEN IF is_key_down(event, "LEFT") THEN Append(calls, <<"move_left", TRUE>>)
         ELSE IF is_key_down(event, "RIGHT") THEN Append(calls, <<"move_right", TRUE>>)
         ELSE IF is_key_down(event, "UP") THEN Append(calls, <<"jump", TRUE>>)
         ELSE calls
    ELSE calls

\* Lines 67-74: the rest of one pass of the event loop; yields
\* <<fields, posted, calls>>.
HandleKeyUp(p, posted, calls, event) ==
    IF is_key_up(event, "LEFT")
    THEN <<p, posted, Append(calls, <<"move_left", FALSE>>)>>
    ELSE IF is_key_up(event, "RIGHT")
    THEN <<p, posted, Append(calls, <<"move_right", FALSE>>)>>
    ELSE IF is_key_up(event, "E")
    THEN LET a == handle_activation(p, posted) IN <<a[1], a[2], calls>>
    ELSE IF is_type(event, "NPC_DIALOGUE_END")
    THEN <<[p EXCEPT !.talking = FALSE], posted, calls>>
    ELSE <<p, posted, calls>>

\* Lines 58-74: one pass of the event loop; yields <<fields, posted, calls>>.
HandleEvent(p, posted, calls, event) ==
    HandleKeyUp(p, posted, HandleKeyDown(p, calls, event), event)

\* Lines 52-74: the event loop from index i on; yields
\* <<fields, posted, calls>>.
RECURSIVE PlayerHandleEvents(_, _, _, _)
PlayerHandleEvents(i, p, posted, calls) ==
    IF i > Len(events) THEN <<p, posted, calls>>
    ELSE LET r == HandleEvent(p, posted, calls, events[i])
         IN  PlayerHandleEvents(i + 1, r[1], r[2], r[3])

\* The event batches one run of _handle_events may be handed.
Batches == UNION {[1..n -> HostEvents] : n \in 0..MaxBatch}

\* Player.update has run lines 35-37 and is about to run _handle_events on
\* a batch, talking or not.
InitEvents ==
    /\ InitRobot
    /\ InitScreen({1})
    /\ entities = [id \in Ids |->
                     IF id = PlayerId THEN NewEntity("PLAYER")
                     ELSE IF id \in NpcIds THEN NewEntity("FRIENDLY_NPC")
                     ELSE NoEntity]
    /\ colliding \in SUBSET NpcIds
    /\ \E t \in BOOLEAN :
           pl = [npc_near_by |-> update_npc_near_by(entities)[1],
                 talking |-> t, inventory |-> <<>>,
                 inventory_entity_id |-> None]
    /\ queue = update_npc_near_by(entities)[2]
    /\ events \in Batches
    /\ handled = <<>>
    /\ first_id = 1
    /\ posted_last_tick = <<>>
    /\ npc = [n \in NpcIds |-> [is_near_player |-> FALSE, question_mark_id |-> None]]
    /\ wpc = "events"
    /\ npc_turn = None
    /\ move_calls = <<>>
    /\ crashed = FALSE

\* Lines 56-74: one pass of the event loop, on the next event of the batch.
HandleEventStep ==
    /\ UNCHANGED <<robotVars, screenVars>>
    /\ wpc = "events"
    /\ Len(handled) < Len(events)
    /\ LET event == events[Len(handled) + 1]
           r == HandleEvent(pl, queue, move_calls, event)
       IN  /\ pl' = r[1]
           /\ queue' = r[2]
           /\ move_calls' = r[3]
           /\ handled' = Append(handled, event)
    /\ UNCHANGED <<entities, npc, events, posted_last_tick, first_id,
                   colliding, wpc, npc_turn, crashed>>

\* Line 50: get_entity(...).set_inventory(...) raises when the lookup yields
\* no entity, or an entity that is no inventory display.
InventoryLookupFails(e) == e.kind # "PLAYER_INVENTORY"

\* Lines 44-50, after the rest of update has yielded the fields p, the
\* entities ents, and the posted events and movement calls. fresh is the
\* identifier World.add_entity returns.
UpdateInventoryEntity(p, ents, fresh, posted, calls) ==
    LET adds == ~Truthy(p.inventory_entity_id)
        ents1 == IF adds THEN add_entity(ents, fresh, "PLAYER_INVENTORY") ELSE ents
        p1 == IF adds THEN [p EXCEPT !.inventory_entity_id = fresh] ELSE p
    IN  /\ pl' = p1
        /\ queue' = queue \o posted
        /\ move_calls' = calls
        /\ IF InventoryLookupFails(get_entity(ents1, p1.inventory_entity_id))
           THEN /\ entities' = ents1
                /\ crashed' = TRUE
                /\ wpc' = "crashed"
                /\ UNCHANGED npc_turn
           ELSE /\ entities' = [ents1 EXCEPT
                       ![p1.inventory_entity_id].inventory = p1.inventory]
                /\ wpc' = "npc"
                /\ npc_turn' = 2
                /\ UNCHANGED crashed

\* Lines 34-42.
PlayerUpdate ==
    /\ UNCHANGED <<robotVars, screenVars>>
    /\ wpc = "player"
    /\ LET near == update_npc_near_by(entities)
           pick == pick_item_near_by(entities, pl.inventory)
           h == PlayerHandleEvents(
                    1, [pl EXCEPT !.npc_near_by = near[1], !.inventory = pick[2]],
                    near[2], <<>>)
       IN  IF Truthy(pl.inventory_entity_id)
           THEN UpdateInventoryEntity(h[1], pick[1], None, h[2], h[3])
           ELSE \E fresh \in FreeIds(pick[1]) :
                    UpdateInventoryEntity(h[1], pick[1], fresh, h[2], h[3])
    /\ handled' = events
    /\ UNCHANGED <<npc, events, posted_last_tick, first_id, colliding>>

\* ---- FriendlyNpc (friendly_npc.py)
\* Variant of npc_handle_events without the listener check of lines 44-45.
npc_handle_events_AnyListener(self_id) ==
    \E i \in 1..Len(events) : is_type(events[i], "PLAYER_NEAR_NPC")

\* Variant of npc_handle_events that also takes an event without listener id.
npc_handle_events_Broadcast(self_id) ==
    \E i \in 1..Len(events) :
        /\ get_listener_id(events[i]) \in {self_id, None}
        /\ is_type(events[i], "PLAYER_NEAR_NPC")

\* Variant of npc_handle_events without the reset of line 41.
npc_handle_events_NoReset(self_id) ==
    \/ npc[self_id].is_near_player
    \/ \E i \in 1..Len(events) :
           /\ get_listener_id(events[i]) = self_id
           /\ is_type(events[i], "PLAYER_NEAR_NPC")

\* Lines 40-47: the value of is_near_player after the event loop.
npc_handle_events(self_id) ==
    \E i \in 1..Len(events) :
        /\ get_listener_id(events[i]) = self_id
        /\ is_type(events[i], "PLAYER_NEAR_NPC")

\* Lines 49-54. fresh is the identifier World.add_entity returns.
highlight(self, fresh) ==
    IF ~Truthy(npc[self].question_mark_id)
    THEN /\ entities' = [add_entity(entities, fresh, "QUESTION_MARK")
                            EXCEPT ![fresh].at = self]
         /\ npc' = [npc EXCEPT ![self] =
                        [is_near_player |-> TRUE, question_mark_id |-> fresh]]
    ELSE /\ npc' = [npc EXCEPT ![self].is_near_player = TRUE]
         /\ UNCHANGED entities

\* Lines 56-59.
unhightlight(self) ==
    IF Truthy(npc[self].question_mark_id)
    THEN /\ entities' = remove_entity(entities, npc[self].question_mark_id)
         /\ npc' = [npc EXCEPT ![self] =
                        [is_near_player |-> FALSE, question_mark_id |-> None]]
    ELSE /\ npc' = [npc EXCEPT ![self].is_near_player = FALSE]
         /\ UNCHANGED entities

\* Lines 32-38, for the FriendlyNpc whose turn it is.
NpcUpdate ==
    /\ UNCHANGED <<robotVars, screenVars>>
    /\ wpc = "npc"
    /\ IF npc_handle_events(npc_turn)
       THEN IF Truthy(npc[npc_turn].question_mark_id)
            THEN highlight(npc_turn, None)
            ELSE \E fresh \in FreeIds(entities) : highlight(npc_turn, fresh)
       ELSE unhightlight(npc_turn)
    /\ IF npc_turn = 3
       THEN \* the tick is over: its events and collisions are dropped
            /\ wpc' = "begin"
            /\ npc_turn' = None
            /\ events' = <<>>
            /\ posted_last_tick' = <<>>
            /\ handled' = <<>>
            /\ colliding' = {}
       ELSE /\ wpc' = "npc"
            /\ npc_turn' = npc_turn + 1
            /\ UNCHANGED <<events, posted_last_tick, handled, colliding>>
    /\ move_calls' = <<>>
    /\ UNCHANGED <<pl, queue, first_id, crashed>>

NextWorld ==
    \/ TickBegin
    \/ RemoveByOther
    \/ PlayerUpdate
    \/ NpcUpdate

Init == InitRobot /\ InitWorld /\ InitScreen({1})

SpecRobot == Init /\ [][NextRobot]_vars

SpecWorld == Init /\ [][NextWorld]_vars

NextEvents == HandleEventStep

\* ---- FriendlyNpc on its own: the Player is the environment that posts
\* PLAYER_NEAR_NPC, and the World numbers its entities from 0 or from 1.
InitNpc ==
    /\ InitRobot
    /\ InitScreen({1})
    /\ \E first \in {0, 1} : InitWorldFrom(first)

\* The events the NPCs are handed in one tick: Player.update of the tick
\* before posted PLAYER_NEAR_NPC for the NPC it collided with, or nothing.
NpcTickBegin ==
    /\ UNCHANGED <<robotVars, screenVars>>
    /\ wpc = "begin"
    /\ \E near \in {None} \cup NpcIds :
           events' = IF near = None THEN <<>>
                     ELSE <<GameEvent("PLAYER_NEAR_NPC", "NONE", near)>>
    /\ posted_last_tick' = events'
    /\ wpc' = "npc"
    /\ npc_turn' = 2
    /\ UNCHANGED <<entities, pl, npc, queue, handled, first_id, colliding,
                   move_calls, crashed>>

NextNpc ==
    \/ NpcTickBegin
    \/ NpcUpdate

SpecNpc == InitNpc /\ [][NextNpc]_vars

\* The game loop runs one tick after the other for as long as it can.
SpecNpcFair == InitNpc /\ [][NextNpc]_vars /\ WF_vars(NextNpc)

SpecEvents == InitEvents /\ [][NextEvents]_vars

\* The player anywhere on the screen, then one Player.update after the other.
InitScreenRun ==
    /\ InitRobot
    /\ InitWorld
    /\ InitScreen(0..(WIDTH - PlayerWidth))

SpecScreen == InitScreenRun /\ [][NextScreen]_vars

\* ------------------------------------------------- Crazy-Robot claims ----
Terminal == {"WON", "LOST"}

HitsRobot ==
    \E i \in 1..Len(list_robot) :
        overlap(player.x, player.y, Image, list_robot[i].x, list_robot[i].y, Image)

HitsGoal == overlap(player.x, player.y, Image, to_mo.x, to_mo.y, Image)

HitsItem(i) ==
    overlap(player.x, player.y, Image, list_item[i].x, list_item[i].y, Image)

Hidden == {i \in 1..Len(list_item) : list_item[i].hidden}

\* The collision checks of a tick that started RUNNING are over.
ChecksDone == tick_state = "RUNNING" /\ pc \in {"render", "top"}

\* C1: a tick that starts RUNNING and in which the player overlaps a robot and
\* the goal NPC ends with state LOST, not WON.
C1_HazardBeatsGoal ==
    (ChecksDone /\ HitsRobot /\ HitsGoal) => game_state.state = "LOST"

\* C2: once the state is WON or LOST at the end of a tick it keeps that value
\* through every later tick, whatever the player still overlaps.
C2_TerminalAbsorbing ==
    tick_state \in Terminal => game_state.state = tick_state

C2_Witness ==
    /\ tick_state = "WON"
    /\ pc = "top"
    /\ n_render = 1
    /\ HitsRobot
    /\ HitsGoal

\* C3: game_state.update_state is called at most once per tick, also when
\* several robots, or a robot and the goal, overlap the player.
C3_UpdateStateAtMostOnce == n_update_state <= 1

\* C4: the score never decreases, and a tick that starts with state WON or
\* LOST leaves the score as it was at the start of the tick.
C4_ScoreMonotoneFrozen ==
    /\ [][game_state'.score >= game_state.score]_vars
    /\ [](tick_state \in Terminal => game_state.score = tick_score)

C4_Witness ==
    /\ tick_state \in Terminal
    /\ pc = "top"
    /\ n_render = 1
    /\ game_state.score > 0

\* What one pass of the item loop over all items does.
C5_ItemStep ==
    (pc = "items" /\ pc' = "hazards") =>
        LET picked == {i \in 1..Len(list_item) : ~list_item[i].hidden /\ HitsItem(i)}
        IN  /\ game_state'.score = game_state.score + Cardinality(picked)
            /\ \A i \in 1..Len(list_item) :
                   list_item'[i].hidden = (list_item[i].hidden \/ i \in picked)

\* C5: the item pass adds exactly 1 to the score for every non-hidden item the
\* player overlaps and hides it, leaves the hidden items alone, and so the
\* score is the number of hidden items and at most the number of items.
C5_ScoreCountsHidden ==
    /\ [](/\ game_state.score = Cardinality(Hidden)
          /\ game_state.score <= Len(list_item))
    /\ [][C5_ItemStep]_vars

\* The item pass of this tick picked one item while the player also overlaps
\* an item hidden in an earlier tick.
C5_Witness ==
    /\ pc = "hazards"
    /\ game_state.score = tick_score + 1
    /\ Cardinality({i \in Hidden : HitsItem(i)}) = 2

\* What a step does at the loop top with a quit signal, and after the loop.
C8_QuitStep ==
    /\ (pc = "top" /\ running /\ quit_event) =>
           /\ pc' = "exit"
           /\ running' = FALSE
           /\ UNCHANGED <<player, list_robot, list_item, to_mo, game_state,
                          n_update_state, n_render>>
    /\ (pc = "exit" \/ ~running) => UNCHANGED robotVars

\* C8: a quit signal present at the top of an iteration ends the loop there,
\* before any update, check, score or state change and render, in every game
\* state; nothing runs after the loop has ended.
C8_QuitEndsLoop == [][C8_QuitStep]_vars

C8_Witness ==
    /\ pc = "exit"
    /\ ~running
    /\ game_state.state = "RUNNING"
    /\ tick_state = "RUNNING"

\* What a step of a tick that started WON or LOST leaves alone.
C9_FrozenStep ==
    tick_state' \in Terminal =>
        UNCHANGED <<player, list_robot, list_item, game_state>>

\* C9: a tick that starts with state WON or LOST runs no entity update and no
\* collision check (player, robots, items, score and state are unchanged) and
\* runs the render phase exactly once.
C9_TerminalTickOnlyRenders ==
    /\ [][C9_FrozenStep]_vars
    /\ [](tick_state \in Terminal =>
             /\ pc \in {"render", "top", "exit"}
             /\ n_update_state = 0
             /\ n_render = (IF pc = "render" THEN 0 ELSE 1))

C9_Witness ==
    /\ tick_state = "LOST"
    /\ pc = "top"
    /\ n_render = 1
    /\ HitsRobot

\* ------------------------------------------- World / event-bus claims ----
\* This tick's events hold a PLAYER_NEAR_NPC event with listener id l.
NearEventFor(l) ==
    \E i \in 1..Len(events) :
        /\ is_type(events[i], "PLAYER_NEAR_NPC")
        /\ get_listener_id(events[i]) = l

\* What a step may do to the is_near_player of each FriendlyNpc.
C6_Step ==
    \A b \in NpcIds :
        /\ (npc'[b].is_near_player # npc[b].is_near_player) =>
               (wpc = "npc" /\ npc_turn = b)
        /\ (wpc = "npc" /\ npc_turn = b /\ npc'[b].is_near_player) =>
               NearEventFor(b)

\* C6: a FriendlyNpc's is_near_player changes only in its own update, and is
\* true after it only if this tick's events hold a PLAYER_NEAR_NPC event whose
\* listener id is the NPC's own id; an event addressed to another NPC never
\* makes it act.
C6_OnlyAddresseeActs == [][C6_Step]_vars

\* NPC 2 has run its update on events that hold an event for NPC 3 and none
\* for itself, and has not acted.
C6_Witness ==
    /\ wpc = "npc"
    /\ npc_turn = 3
    /\ NearEventFor(3)
    /\ ~NearEventFor(2)
    /\ ~npc[2].is_near_player

\* C7 as claimed: a PLAYER_NEAR_NPC event without listener id among this
\* tick's events makes every FriendlyNpc act on it.
C7_BroadcastActedOn ==
    [][(wpc = "npc" /\ NearEventFor(None)) => npc'[npc_turn].is_near_player]_vars

\* C7 as amended: a FriendlyNpc acts on the events addressed to it alone:
\* after its update is_near_player is true exactly if this tick's events hold
\* a PLAYER_NEAR_NPC event with its own id as listener id; one without
\* listener id is ignored.
C7_OnlyAddressedCounts ==
    [][wpc = "npc" =>
           (npc'[npc_turn].is_near_player = NearEventFor(npc_turn))]_vars

\* NPC 2 has run its update on events that hold a broadcast PLAYER_NEAR_NPC
\* and is not near the player.
C7_Witness ==
    /\ wpc = "npc"
    /\ npc_turn = 3
    /\ NearEventFor(None)
    /\ ~npc[2].is_near_player

\* Player.update on a cached inventory_entity_id the World does not know.
C10_Step ==
    (/\ wpc = "player"
     /\ Truthy(pl.inventory_entity_id)
     /\ ~Found(get_entity(entities, pl.inventory_entity_id))) =>
        (/\ ~crashed'
         /\ wpc' = "npc"
         /\ pl'.inventory_entity_id = None)

\* C10 as claimed: when the lookup of Player.inventory_entity_id finds no
\* entity, Player.update completes, clears the cached identifier, and no
\* failure leaves update.
C10_LookupFailureRecovered == [][C10_Step]_vars

\* The events seq holds a PLAYER_NEAR_NPC event with listener id l.
NearPostedIn(seq, l) ==
    \E i \in 1..Len(seq) :
        /\ is_type(seq[i], "PLAYER_NEAR_NPC")
        /\ get_listener_id(seq[i]) = l

PhaseOrder ==
    {<<"top", "exit">>, <<"top", "player_update">>, <<"top", "render">>,
     <<"player_update", "robots_update">>, <<"robots_update", "items">>,
     <<"items", "hazards">>, <<"hazards", "goal">>, <<"goal", "render">>,
     <<"render", "top">>}

\* What one step of the loop may change, by the phase it leaves.
C12_Step ==
    /\ pc' # pc => <<pc, pc'>> \in PhaseOrder
    /\ (pc = "top" /\ pc' = "player_update") => game_state.state = "RUNNING"
    /\ (pc = "top" /\ pc' = "render") => game_state.state # "RUNNING"
    /\ player' # player => pc = "player_update"
    /\ list_robot' # list_robot => pc = "robots_update"
    /\ (pc = "robots_update" /\ pc' = "items") =>
           /\ Len(list_robot') = Len(list_robot)
           /\ \A j \in 1..Len(list_robot) :
                  list_robot'[j] = robot_update(list_robot[j])
    /\ (list_item' # list_item \/ game_state'.score # game_state.score) =>
           pc = "items"
    /\ game_state'.state # game_state.state => pc \in {"hazards", "goal"}
    /\ (pc = "items" /\ pc' = "hazards" /\ HitsRobot
            /\ \E i \in 1..Len(list_item) :
                   ~list_item[i].hidden /\ HitsItem(i)) =>
           /\ game_state'.score > game_state.score
           /\ game_state'.state = "RUNNING"
    /\ (pc = "hazards" /\ pc' = "goal" /\ HitsRobot) =>
           /\ game_state'.state = "LOST"
           /\ game_state'.score = game_state.score
    /\ n_render' # n_render => (pc = "render" \/ pc = "top")

\* C12: a RUNNING tick runs player update, every robot's update once, the
\* item checks, the hazard checks, the goal check and the render in this
\* order; in a tick where the player overlaps a non-hidden item and a robot
\* the item checks raise the score first and the hazard checks of the same
\* tick then set the state to LOST.
C12_PhaseOrder == [][C12_Step]_vars

\* After the hazard checks of a tick that picked an item up on a robot.
C12_Witness ==
    /\ pc = "goal"
    /\ tick_state = "RUNNING"
    /\ HitsRobot
    /\ game_state.state = "LOST"
    /\ game_state.score = tick_score + 1
    /\ \E i \in Hidden : HitsItem(i)

\* The event the next pass of the event loop handles.
NextEvent == events[Len(handled) + 1]

KeyDowns ==
    {GameEvent("KEYDOWN", k, None) : k \in {"LEFT", "RIGHT", "UP"}}

\* One pass of the event loop with talking true.
C13_Step ==
    (wpc = "events" /\ handled' # handled /\ pl.talking) =>
        /\ NextEvent \in KeyDowns => move_calls' = move_calls
        /\ is_key_up(NextEvent, "LEFT") =>
               move_calls' = Append(move_calls, <<"move_left", FALSE>>)
        /\ is_key_up(NextEvent, "RIGHT") =>
               move_calls' = Append(move_calls, <<"move_right", FALSE>>)
        /\ is_type(NextEvent, "NPC_DIALOGUE_END") => ~pl'.talking
        /\ is_key_up(NextEvent, "E") => pl'.talking

\* C13: a key-down for left, right or jump handled while talking is true
\* invokes none of move_left, move_right and jump, also when talking was set
\* by an E key-up earlier in the same batch; key-up events handled while
\* talking still call move_left(False) and move_right(False).
C13_NoMoveWhileTalking == [][C13_Step]_vars

\* The first key-down of the batch moved the player, the E key-up after it
\* started a dialogue, the key-down after that was ignored.
C13_Witness ==
    /\ wpc = "events"
    /\ handled = <<GameEvent("KEYDOWN", "LEFT", None),
                   GameEvent("KEYUP", "E", None),
                   GameEvent("KEYDOWN", "RIGHT", None)>>
    /\ pl.talking
    /\ move_calls = <<<<"move_left", TRUE>>>>

\* The FriendlyNpcs with dialogue the player collides with in this tick.
CollidingWithDialogue ==
    {n \in colliding : entities[n].kind = "FRIENDLY_NPC" /\ has_dialogue(n)}

\* One pass of the event loop, as to talking and the events posted.
C14_Step ==
    (wpc = "events" /\ handled' # handled) =>
        /\ (~pl.talking /\ pl'.talking) =>
               /\ is_key_up(NextEvent, "E")
               /\ pl.npc_near_by \in CollidingWithDialogue
               /\ queue' = Append(queue, GameEvent("PLAYER_ACTIVATE_NPC",
                                                   "NONE", pl.npc_near_by))
        /\ (pl.talking /\ ~pl'.talking) => is_type(NextEvent, "NPC_DIALOGUE_END")
        /\ (is_key_up(NextEvent, "E")
                /\ (colliding \cap NpcIds = {}
                        \/ (pl.npc_near_by # None
                                /\ ~has_dialogue(pl.npc_near_by)))) =>
               /\ queue' = queue
               /\ pl'.talking = pl.talking
        /\ ~is_key_up(NextEvent, "E") => queue' = queue

\* C14: talking turns from false to true only in the handling of an E key-up
\* while the player collides in this tick with a FriendlyNpc that has
\* dialogue, and that step posts exactly one PLAYER_ACTIVATE_NPC event,
\* addressed to that NPC; talking turns from true to false only in the
\* handling of NPC_DIALOGUE_END; an E key-up with no colliding NPC, or with a
\* nearby NPC without dialogue, posts nothing and leaves talking as it is.
C14_TalkingTransitions == [][C14_Step]_vars

\* A dialogue started by an E key-up next to NPC 2 and ended in the same
\* batch; the key-down before it shows talking was false.
C14_Witness ==
    /\ wpc = "events"
    /\ handled = <<GameEvent("KEYDOWN", "UP", None),
                   GameEvent("KEYUP", "E", None),
                   GameEvent("NPC_DIALOGUE_END", "NONE", None)>>
    /\ move_calls = <<<<"jump", TRUE>>>>
    /\ ~pl.talking
    /\ queue = <<GameEvent("PLAYER_NEAR_NPC", "NONE", 2),
                 GameEvent("PLAYER_ACTIVATE_NPC", "NONE", 2)>>

\* The collectable entities the player collides with in this tick.
CollidingTiles == {t \in colliding : entities[t].kind = "COLLECTABLE"}

InInventory(t) == \E i \in 1..Len(pl.inventory) : pl.inventory[i] = t

\* Player.update on the collectables it collides with, and any step on the
\* inventory.
C15_Step ==
    /\ Len(pl'.inventory) >= Len(pl.inventory)
    /\ SubSeq(pl'.inventory, 1, Len(pl.inventory)) = pl.inventory
    /\ wpc = "player" =>
           \A t \in CollidingTiles :
               /\ entities'[t].kind # "COLLECTABLE"
               /\ \E i \in 1..Len(pl'.inventory) : pl'.inventory[i] = t

\* C15: a collectable the player collides with during its update leaves the
\* World and is appended to the inventory; no collectable of the inventory is
\* registered in the World (an identifier of the inventory names no
\* collectable of the World: the World may hand the freed identifier to a new
\* entity of another kind), none is in the inventory twice, and the inventory
\* only grows by appending.
C15_PickedOnce ==
    /\ [][C15_Step]_vars
    /\ [](\A i \in 1..Len(pl.inventory) :
              /\ entities[pl.inventory[i]].kind # "COLLECTABLE"
              /\ \A j \in 1..Len(pl.inventory) :
                     pl.inventory[i] = pl.inventory[j] => i = j)

\* The tile is in the inventory, and the World has handed its identifier to
\* a question mark since.
C15_Witness ==
    /\ pl.inventory = <<TileId>>
    /\ entities[TileId].kind = "QUESTION_MARK"
    /\ wpc = "begin"

\* The positions, in the World's iteration order, of the FriendlyNpcs the
\* player collides with in this tick.
CollidingNpcAt ==
    {i \in 1..Len(get_friendly_npcs(entities)) :
         get_friendly_npcs(entities)[i] \in colliding}

\* The listener ids of the PLAYER_NEAR_NPC events of seq, one per event.
RECURSIVE NearListeners(_)
NearListeners(seq) ==
    IF seq = <<>> THEN <<>>
    ELSE IF is_type(Head(seq), "PLAYER_NEAR_NPC")
         THEN <<get_listener_id(Head(seq))>> \o NearListeners(Tail(seq))
         ELSE NearListeners(Tail(seq))

\* Player.update, as to npc_near_by and the PLAYER_NEAR_NPC events it posts.
C16_Step ==
    wpc = "player" =>
        /\ SubSeq(queue', 1, Len(queue)) = queue
        /\ LET posted == SubSeq(queue', Len(queue) + 1, Len(queue'))
           IN  IF CollidingNpcAt = {}
               THEN /\ NearListeners(posted) = <<>>
                    /\ pl'.npc_near_by = None
               ELSE LET first == get_friendly_npcs(entities)[
                                     CHOOSE i \in CollidingNpcAt :
                                         \A j \in CollidingNpcAt : i <= j]
                    IN  /\ NearListeners(posted) = <<first>>
                        /\ pl'.npc_near_by = first

\* C16: one Player.update posts no PLAYER_NEAR_NPC event and leaves
\* npc_near_by None when the player collides with no FriendlyNpc; otherwise
\* it posts exactly one, addressed to the first colliding NPC in the World's
\* iteration order, and npc_near_by is that NPC. npc_near_by is never an NPC
\* the player does not collide with in this tick.
C16_OneNearEvent ==
    /\ [][C16_Step]_vars
    /\ [](wpc \in {"npc", "crashed"} =>
              (pl.npc_near_by = None \/ pl.npc_near_by \in colliding))

\* NPC 3 alone was near in the tick before; now the player collides with
\* both NPCs, and the one event posted is for NPC 2, the first of them.
C16_Witness ==
    /\ wpc = "npc"
    /\ NearListeners(posted_last_tick) = <<3>>
    /\ colliding \cap NpcIds = {2, 3}
    /\ pl.npc_near_by = 2
    /\ NearListeners(queue) = <<2>>

\* npc_near_by was NPC 2 in the tick before and is None now.
C16_WitnessNone ==
    /\ wpc = "npc"
    /\ NearListeners(posted_last_tick) = <<2>>
    /\ colliding \cap NpcIds = {}
    /\ pl.npc_near_by = None
    /\ NearListeners(queue) = <<>>

\* The question-mark entities of ents placed over NPC n.
QuestionMarksOf(ents, n) ==
    {id \in Ids : ents[id].kind = "QUESTION_MARK" /\ ents[id].at = n}

\* One FriendlyNpc.update, for the NPC whose turn it is.
C17_Step ==
    wpc = "npc" =>
        LET self == npc_turn
            owned == QuestionMarksOf(entities', self)
        IN  /\ npc'[self].is_near_player <=> owned # {}
            /\ Cardinality(owned) <= 1
            /\ npc'[self].is_near_player =>
                   npc'[self].question_mark_id \in owned
            /\ (npc[self].is_near_player /\ npc'[self].is_near_player) =>
                   entities' = entities
            /\ ~npc'[self].is_near_player =>
                   npc'[self].question_mark_id = None

\* C17: after every FriendlyNpc.update, whatever identifier World.add_entity
\* returned, the NPC owns a question mark exactly if is_near_player is true:
\* at most one question mark per NPC is registered, a tick in which the NPC
\* stays near adds none, and when the NPC is not near question_mark_id is
\* None and none of its question marks is left in the World.
C17_QuestionMarkIffNear == [][C17_Step]_vars

\* From some tick on no PLAYER_NEAR_NPC event is delivered for NPC n, and
\* the ticks keep running.
NeverNearAgain(n) ==
    /\ <>[](~NearPostedIn(events, n))
    /\ []<>(wpc = "begin")

Unhighlighted(n) ==
    /\ ~npc[n].is_near_player
    /\ QuestionMarksOf(entities, n) = {}

\* C18: if from some tick on the player no longer collides with a
\* FriendlyNpc, no further PLAYER_NEAR_NPC event is posted for it, and while
\* the ticks keep running its is_near_player becomes false and its question
\* mark leaves the World, for good as the player never collides with it again.
C18_EventuallyUnhighlighted ==
    /\ NeverNearAgain(2) => <>[]Unhighlighted(2)
    /\ NeverNearAgain(3) => <>[]Unhighlighted(3)

\* ------------------------------------------------ screen-offset claims ----
\* The player's rect at x is right of the left edge and left of the right
\* soft edge.
Inside(x) == 0 < Left(x) /\ Right(x) <= WIDTH - PLAYER_SOFT_EDGE_WIDTH

\* The player, after the move, is at an edge or inside a soft edge that
\* scrolls the World.
AtScrollingEdge ==
    \/ Left(rect_x) <= 0
    \/ Right(rect_x) >= WIDTH
    \/ Right(rect_x) > WIDTH - PLAYER_SOFT_EDGE_WIDTH
    \/ (Left(rect_x) < PLAYER_SOFT_EDGE_WIDTH /\ ~at_left_most)

\* _update_screen_offset after the move of one Player.update.
C19_Step ==
    spc = "moved" =>
        IF AtScrollingEdge
        THEN /\ rect_x' = rect_x - self_dx
             /\ offset_calls' = <<-self_dx>>
        ELSE /\ rect_x' = rect_x
             /\ offset_calls' = <<0>>

\* C19: _update_screen_offset calls world.update_screen_offset exactly once
\* per Player.update: with -dx, after undoing the move, when the moved player
\* is at the left edge, at the right edge, inside the right soft edge, or
\* inside the left soft edge while the World is not at its left-most
\* position; with 0 and the position kept otherwise. A player right of the
\* left edge and left of the right soft edge before an update is so after
\* it, whatever dx.
C19_ScreenOffset ==
    /\ [][C19_Step]_vars
    /\ [](spc = "idle" /\ Inside(rect_x0) => Inside(rect_x))
    /\ [](spc = "idle" => Len(offset_calls) <= 1)

\* The move took the player from inside into the right soft edge and was
\* undone: the World scrolls instead.
C19_Witness ==
    /\ spc = "idle"
    /\ Inside(rect_x0)
    /\ self_dx > 0
    /\ ~Inside(rect_x0 + self_dx)
    /\ rect_x = rect_x0
    /\ offset_calls = <<-self_dx>>

====
